---- MODULE Spec2Model ----
(***************************************************************************)
(* Model of geohash.py: the bit-operation encoder and decoder, run one     *)
(* loop iteration per step, the string-based demonstration path as pure    *)
(* operators, and the decimal formatting of decode().                      *)
(*                                                                         *)
(* Numbers.  Every coordinate is an integer count of 1/Unit degrees, Unit  *)
(* a power of two large enough that each midpoint (lo + hi) / 2 taken      *)
(* within the bounds is an integer: the floats of the program are exact    *)
(* there too (intervals of at most 18 halvings of 360).                    *)
(* Strings are sequences of one-character strings.                         *)
(***************************************************************************)
EXTENDS Integers, Sequences, FiniteSets, TLC

\* ------------------------------------------------------------------ bounds

\* Longest geohash requested from encode and longest string over Symbols
\* given to the decoders.
MaxLen == 2

\* Longest string over DeepSymbols given to the decoders.
MaxDeepLen == 6

MaxAnyLen == IF MaxLen > MaxDeepLen THEN MaxLen ELSE MaxDeepLen

\* Fraction bits of the fixed-point unit: after n = ceil(5L/2) longitude bits
\* the error is 180/2^n = 45/2^(n-2), after m = floor(5L/2) latitude bits it is
\* 90/2^m = 45/2^(m-1); both are whole units for L <= MaxAnyLen.
FracBits == IF MaxAnyLen = 0 THEN 0 ELSE (5 * MaxAnyLen) \div 2 - 1

Unit == 2 ^ FracBits

Deg(x) == x * Unit

\* n tenths of a degree, cut to the unit grid
Tenths(n) == (n * Unit) \div 10

\* ------------------------------------------------------------- the alphabet

BASE32 ==
    << "0", "1", "2", "3", "4", "5", "6", "7", "8", "9", "b", "c", "d", "e",
       "f", "g", "h", "j", "k", "m", "n", "p", "q", "r", "s", "t", "u", "v",
       "w", "x", "y", "z" >>

\* {c: i for i, c in enumerate(BASE32)}: the last index of c wins
CHARMAP ==
    [c \in {BASE32[i] : i \in 1..Len(BASE32)} |->
        (CHOOSE i \in 1..Len(BASE32) :
            /\ BASE32[i] = c
            /\ \A j \in (i + 1)..Len(BASE32) : BASE32[j] # c) - 1]

masks == << 16, 8, 4, 2, 1 >>

LAT_LO == Deg(-90)
LAT_HI == Deg(90)
LNG_LO == Deg(-180)
LNG_HI == Deg(180)

\* ----------------------------------------------------- steps of the bisection

\* mutant: the half-width taken for the midpoint
MidOfWidth(lo, hi) == (hi - lo) \div 2

\* mid = (lo + hi) / 2
Mid(lo, hi) == (lo + hi) \div 2

\* mutant: the comparison turned round
EncodeBitLt(val, mid) == val < mid

\* mutant: a tie sent to the upper half
EncodeBitGe(val, mid) == val >= mid

\* if val > mid: the encoder's bit
EncodeBit(val, mid) == val > mid

\* if d & mask: the decoder's bit
BitSet(dd, mask) == (dd \div mask) % 2 = 1

\* mutant: d = masks[bit]
BitOrAssign(dd, mask) == mask

\* d |= masks[bit]
BitOr(dd, mask) == IF BitSet(dd, mask) THEN dd ELSE dd + mask

\* mutant: one character too many
LoopCondLe(h, len) == Len(h) <= len

\* while len(hashstr) < length
LoopCond(h, len) == Len(h) < len

\* is_lng = not is_lng
Toggle(is) == ~is

\* mutant: latitude takes the first bit
FirstIsLat == FALSE

\* is_lng = True, before the first bit
FirstIsLng == TRUE

\* mutant: the width not halved
HalfWidthFull(lo, hi) == hi - lo

\* lat_err = (lat_hi - lat_lo) / 2, lng_err = (lng_hi - lng_lo) / 2
HalfWidth(lo, hi) == (hi - lo) \div 2

\* ------------------------------------------------------- the string-based path

\* "{0:05b}".format(n)
Binary5(n) ==
    [i \in 1..5 |-> IF (n \div (2 ^ (5 - i))) % 2 = 1 THEN "1" ELSE "0"]

_char2bits(c) == Binary5(CHARMAP[c])

RECURSIVE _geohash2bits(_)
_geohash2bits(g) ==
    IF g = << >> THEN << >> ELSE _char2bits(Head(g)) \o _geohash2bits(Tail(g))

\* itertools.islice(bits, start, None, 2), start counted from 0
islice(bits, start) ==
    [i \in 1..((Len(bits) - start + 1) \div 2) |-> bits[start + 2 * (i - 1) + 1]]

\* one iteration of the loop of _bits2coordinate: the interval after bit b
BisectBit(b, lo, hi) ==
    LET mid == Mid(lo, hi)
    IN  IF b = "1" THEN << mid, hi >> ELSE << lo, mid >>

\* the interval of _bits2coordinate when its loop ends
RECURSIVE BisectAll(_, _, _)
BisectAll(bits, lo, hi) ==
    IF bits = << >> THEN << lo, hi >>
    ELSE LET iv == BisectBit(Head(bits), lo, hi)
         IN  BisectAll(Tail(bits), iv[1], iv[2])

\* return (lo + hi) / 2, (hi - lo) / 2
_bits2coordinate(bits, lo, hi) ==
    LET iv == BisectAll(bits, lo, hi)
    IN  << (iv[1] + iv[2]) \div 2, (iv[2] - iv[1]) \div 2 >>

\* << lat_val, lng_val, lat_err, lng_err >>
_decode_val_err(g) ==
    LET bits == _geohash2bits(g)
        lat  == _bits2coordinate(islice(bits, 1), LAT_LO, LAT_HI)
        lng  == _bits2coordinate(islice(bits, 0), LNG_LO, LNG_HI)
    IN  << lat[1], lng[1], lat[2], lng[2] >>

RECURSIVE _coordinate2bits(_, _, _, _)
_coordinate2bits(val, lo, hi, len) ==
    IF len <= 0 THEN << >>
    ELSE LET mid == (lo + hi) \div 2
         IN  IF val > mid
                THEN << "1" >> \o _coordinate2bits(val, mid, hi, len - 1)
                ELSE << "0" >> \o _coordinate2bits(val, lo, mid, len - 1)

\* chain.from_iterable(zip_longest(a, b, fillvalue=''))
RECURSIVE zip_longest(_, _)
zip_longest(a, b) ==
    IF a = << >> /\ b = << >> THEN << >>
    ELSE (IF a = << >> THEN << >> ELSE << Head(a) >>)
         \o (IF b = << >> THEN << >> ELSE << Head(b) >>)
         \o zip_longest(IF a = << >> THEN a ELSE Tail(a),
                        IF b = << >> THEN b ELSE Tail(b))

\* int(s, 2)
RECURSIVE int2(_)
int2(s) ==
    IF s = << >> THEN 0
    ELSE 2 * int2(SubSeq(s, 1, Len(s) - 1)) + (IF s[Len(s)] = "1" THEN 1 ELSE 0)

Min(a, b) == IF a < b THEN a ELSE b
Max(a, b) == IF a > b THEN a ELSE b

_encode(lat, lng, len) ==
    LET lat_bits == _coordinate2bits(lat, LAT_LO, LAT_HI, (len * 5) \div 2)
        lng_bits == _coordinate2bits(lng, LNG_LO, LNG_HI, (len * 5 + 1) \div 2)
        bits     == zip_longest(lng_bits, lat_bits)
        numbers  == [k \in 1..((Len(bits) + 4) \div 5) |->
                        int2(SubSeq(bits, 5 * (k - 1) + 1, Min(5 * k, Len(bits))))]
    IN  [k \in 1..Len(numbers) |-> BASE32[numbers[k] + 1]]

\* ------------------------------------------------------------ the formatting

\* int(-math.log10(num / den)), num > 0, den > 0: int() cuts towards zero
RECURSIVE FloorLog10(_, _)
FloorLog10(num, den) ==
    IF num < 10 * den THEN 0 ELSE 1 + FloorLog10(num, 10 * den)

RECURSIVE FloorNegLog10(_, _)
FloorNegLog10(num, den) ==
    IF 10 * num > den THEN 0 ELSE 1 + FloorNegLog10(10 * num, den)

IntNegLog10(num, den) ==
    IF num >= den THEN 0 - FloorLog10(num, den) ELSE FloorNegLog10(num, den)

\* max(0, int(-math.log10(2 * err)) + 1), err in units
_get_precision(err) == Max(0, IntNegLog10(2 * err, Unit) + 1)

\* whole + num / den rounded to the nearest integer, a tie to the even one
\* (whole >= 0, 0 <= num < den)
RoundHalfEven(whole, num, den) ==
    IF 2 * num < den THEN whole
    ELSE IF 2 * num > den THEN whole + 1
    ELSE IF whole % 2 = 0 THEN whole ELSE whole + 1

Digits == << "0", "1", "2", "3", "4", "5", "6", "7", "8", "9" >>

RECURSIVE DigitsOf(_)
DigitsOf(n) ==
    IF n < 10 THEN << Digits[n + 1] >>
    ELSE Append(DigitsOf(n \div 10), Digits[(n % 10) + 1])

RECURSIVE PadDigits(_, _)
PadDigits(n, width) ==
    IF width = 0 THEN << >>
    ELSE Append(PadDigits(n \div 10, width - 1), Digits[(n % 10) + 1])

\* "%.*f" % (p, v), v in units: the exact value of v, correctly rounded
FormatFixed(p, v) ==
    LET a     == IF v < 0 THEN 0 - v ELSE v
        scaled == (a % Unit) * (10 ^ p)
        n     == RoundHalfEven((a \div Unit) * (10 ^ p) + scaled \div Unit,
                               scaled % Unit, Unit)
        sign  == IF v < 0 THEN << "-" >> ELSE << >>
        whole == DigitsOf(n \div (10 ^ p))
        frac  == IF p = 0 THEN << >> ELSE << "." >> \o PadDigits(n % (10 ^ p), p)
    IN  sign \o whole \o frac

\* --------------------------------------------------------------- the inputs

Symbols == {"0", "7", "e", "s", "z", "a"}

DeepSymbols == {"0", "8"}

RECURSIVE Strings(_, _)
Strings(S, n) ==
    IF n = 0 THEN {<< >>}
    ELSE LET shorter == Strings(S, n - 1)
         IN  shorter \cup {Append(s, c) : s \in {t \in shorter : Len(t) = n - 1}, c \in S}

GeohashInputs == Strings(Symbols, MaxLen) \cup Strings(DeepSymbols, MaxDeepLen)

\* in range: both ends, bisection midpoints (0, -45), their neighbours, 42.6;
\* out of range: -100 and 100
LatInputs ==
    {Deg(-100), Deg(-90), Deg(-45), -1, 0, 1, Tenths(426), Deg(90), Deg(100)}

\* in range: both ends, bisection midpoints (0, -90, 135), -5.6;
\* out of range: -200 and 200
LngInputs ==
    {Deg(-200), Deg(-180), Deg(-90), Tenths(-56), 0, Deg(135), Deg(180), Deg(200)}

\* ---------------------------------------------------------------- the state

VARIABLES
    pc,        \* where the program is
    via,       \* who called the running function: "caller", "decode", "roundtrip"
    lat_val,   \* encode's arguments
    lng_val,
    length,
    geohash,   \* the decoders' argument
    hashstr,   \* locals of encode and decode_val_err
    d,
    bit,       \* encode: bit; decode_val_err: position of mask in masks
    pos,       \* decode_val_err: position of c in geohash, from 1
    is_lng,
    lat_lo,
    lat_hi,
    lng_lo,
    lng_hi,
    enc_ret,   \* what encode returned
    dve_ret,   \* how decode_val_err ended
    dec_ret,   \* how decode ended
    stdout     \* the lines printed

vars ==
    << pc, via, lat_val, lng_val, length, geohash, hashstr, d, bit, pos, is_lng,
       lat_lo, lat_hi, lng_lo, lng_hi, enc_ret, dve_ret, dec_ret, stdout >>

args == << lat_val, lng_val, length, geohash >>
locals == << hashstr, d, bit, pos, is_lng, lat_lo, lat_hi, lng_lo, lng_hi >>
results == << enc_ret, dve_ret, dec_ret, stdout >>

NoDve == [kind |-> "pending", exc |-> "", lat_val |-> 0, lng_val |-> 0, lat_err |-> 0, lng_err |-> 0]
NoDec == [kind |-> "pending", exc |-> "", lat |-> << >>, lng |-> << >>]

Init ==
    /\ pc = "idle"
    /\ via = "caller"
    /\ lat_val = 0
    /\ lng_val = 0
    /\ length = 0
    /\ geohash = << >>
    /\ hashstr = << >>
    /\ d = 0
    /\ bit = 0
    /\ pos = 1
    /\ is_lng = TRUE
    /\ lat_lo = LAT_LO
    /\ lat_hi = LAT_HI
    /\ lng_lo = LNG_LO
    /\ lng_hi = LNG_HI
    /\ enc_ret = << >>
    /\ dve_ret = NoDve
    /\ dec_ret = NoDec
    /\ stdout = << >>

\* ------------------------------------------------------------------- encode

\* encode(lat, lng, len) up to the loop
EnterEncode(lat, lng, len) ==
    /\ pc' = "encode"
    /\ lat_val' = lat
    /\ lng_val' = lng
    /\ length' = len
    /\ hashstr' = << >>
    /\ lat_lo' = LAT_LO
    /\ lat_hi' = LAT_HI
    /\ lng_lo' = LNG_LO
    /\ lng_hi' = LNG_HI
    /\ is_lng' = FirstIsLng
    /\ d' = 0
    /\ bit' = 0
    /\ UNCHANGED << pos, geohash >>

CallEncode ==
    /\ pc = "idle"
    /\ \E lat \in LatInputs, lng \in LngInputs, len \in 0..MaxLen :
          EnterEncode(lat, lng, len)
    /\ via' = "caller"
    /\ UNCHANGED results

\* one iteration of the while loop
EncodeStep ==
    /\ pc = "encode"
    /\ LoopCond(hashstr, length)
    /\ LET lngMid == Mid(lng_lo, lng_hi)
           latMid == Mid(lat_lo, lat_hi)
           one    == IF is_lng THEN EncodeBit(lng_val, lngMid)
                               ELSE EncodeBit(lat_val, latMid)
           dd     == IF one THEN BitOr(d, masks[bit + 1]) ELSE d
       IN  /\ lng_lo' = IF is_lng /\ one THEN lngMid ELSE lng_lo
           /\ lng_hi' = IF is_lng /\ ~one THEN lngMid ELSE lng_hi
           /\ lat_lo' = IF ~is_lng /\ one THEN latMid ELSE lat_lo
           /\ lat_hi' = IF ~is_lng /\ ~one THEN latMid ELSE lat_hi
           /\ is_lng' = Toggle(is_lng)
           /\ IF bit < 4
                 THEN /\ bit' = bit + 1
                      /\ d' = dd
                      /\ hashstr' = hashstr
                 ELSE /\ hashstr' = Append(hashstr, BASE32[dd + 1])
                      /\ bit' = 0
                      /\ d' = 0
    /\ UNCHANGED << pc, via, args, pos, results >>

\* return hashstr
EncodeReturn ==
    /\ pc = "encode"
    /\ ~LoopCond(hashstr, length)
    /\ enc_ret' = hashstr
    /\ pc' = "encode_returned"
    /\ UNCHANGED << via, args, locals, dve_ret, dec_ret, stdout >>

\* ---------------------------------------------------- decode_val_err, decode

\* decode_val_err(g) up to the loop
EnterDecodeValErr(g) ==
    /\ pc' = "decode_val_err"
    /\ geohash' = g
    /\ lat_lo' = LAT_LO
    /\ lat_hi' = LAT_HI
    /\ lng_lo' = LNG_LO
    /\ lng_hi' = LNG_HI
    /\ is_lng' = FirstIsLng
    /\ pos' = 1
    /\ bit' = 0
    /\ d' = 0
    /\ UNCHANGED << lat_val, lng_val, length, hashstr >>

CallDecodeValErr ==
    /\ pc = "idle"
    /\ \E g \in GeohashInputs : EnterDecodeValErr(g)
    /\ via' = "caller"
    /\ UNCHANGED results

\* decode(g): the try block calls decode_val_err(g)
CallDecode ==
    /\ pc = "idle"
    /\ \E g \in GeohashInputs : EnterDecodeValErr(g)
    /\ via' = "decode"
    /\ UNCHANGED results

\* one iteration of "for mask in masks", after d = CHARMAP[c] found c
DecodeValErrStep ==
    /\ pc = "decode_val_err"
    /\ pos <= Len(geohash)
    /\ geohash[pos] \in DOMAIN CHARMAP
    /\ LET dd     == CHARMAP[geohash[pos]]
           one    == BitSet(dd, masks[bit + 1])
           lngMid == Mid(lng_lo, lng_hi)
           latMid == Mid(lat_lo, lat_hi)
       IN  /\ d' = dd
           /\ lng_lo' = IF is_lng /\ one THEN lngMid ELSE lng_lo
           /\ lng_hi' = IF is_lng /\ ~one THEN lngMid ELSE lng_hi
           /\ lat_lo' = IF ~is_lng /\ one THEN latMid ELSE lat_lo
           /\ lat_hi' = IF ~is_lng /\ ~one THEN latMid ELSE lat_hi
           /\ is_lng' = Toggle(is_lng)
           /\ IF bit < Len(masks) - 1
                 THEN bit' = bit + 1 /\ pos' = pos
                 ELSE bit' = 0 /\ pos' = pos + 1
    /\ UNCHANGED << pc, via, args, hashstr, results >>

\* d = CHARMAP[c] with c not a key: KeyError leaves decode_val_err
DecodeValErrRaise ==
    /\ pc = "decode_val_err"
    /\ pos <= Len(geohash)
    /\ geohash[pos] \notin DOMAIN CHARMAP
    /\ dve_ret' = [NoDve EXCEPT !.kind = "raise", !.exc = "KeyError"]
    /\ pc' = "dve_raised"
    /\ UNCHANGED << via, args, locals, enc_ret, dec_ret, stdout >>

\* the four results after the loop
DecodeValErrReturn ==
    /\ pc = "decode_val_err"
    /\ pos > Len(geohash)
    /\ dve_ret' = [kind    |-> "return",
                   exc     |-> "",
                   lat_val |-> Mid(lat_lo, lat_hi),
                   lng_val |-> Mid(lng_lo, lng_hi),
                   lat_err |-> HalfWidth(lat_lo, lat_hi),
                   lng_err |-> HalfWidth(lng_lo, lng_hi)]
    /\ pc' = "dve_returned"
    /\ UNCHANGED << via, args, locals, enc_ret, dec_ret, stdout >>

\* decode: the rest of the try block
DecodeFormat ==
    /\ pc = "dve_returned"
    /\ via = "decode"
    /\ LET precision == _get_precision(dve_ret.lng_err)
       IN  dec_ret' = [kind |-> "return_tuple",
                       exc  |-> "",
                       lat  |-> FormatFixed(precision, dve_ret.lat_val),
                       lng  |-> FormatFixed(precision, dve_ret.lng_val)]
    /\ pc' = "decode_returned"
    /\ UNCHANGED << via, args, locals, enc_ret, dve_ret, stdout >>

\* decode: the bare except prints, and the function ends without a return
DecodeExcept ==
    /\ pc = "dve_raised"
    /\ via = "decode"
    /\ stdout' = Append(stdout, "Unable to decode!")
    /\ dec_ret' = [NoDec EXCEPT !.kind = "return_None"]
    /\ pc' = "decode_returned"
    /\ UNCHANGED << via, args, locals, enc_ret, dve_ret >>

\* ------------------------------------------------------------ the round trips

\* decode_val_err(encode(lat, lng, len))
RoundTripDecode ==
    /\ pc = "encode_returned"
    /\ via = "caller"
    /\ EnterDecodeValErr(enc_ret)
    /\ via' = "roundtrip"
    /\ UNCHANGED results

\* encode(lat_val, lng_val, len(g)) of decode_val_err(g)
RoundTripEncode ==
    /\ pc = "dve_returned"
    /\ via = "caller"
    /\ EnterEncode(dve_ret.lat_val, dve_ret.lng_val, Len(geohash))
    /\ via' = "roundtrip"
    /\ UNCHANGED results

Next ==
    \/ CallEncode
    \/ EncodeStep
    \/ EncodeReturn
    \/ CallDecodeValErr
    \/ CallDecode
    \/ DecodeValErrStep
    \/ DecodeValErrRaise
    \/ DecodeValErrReturn
    \/ DecodeFormat
    \/ DecodeExcept
    \/ RoundTripDecode
    \/ RoundTripEncode

Spec == Init /\ [][Next]_vars

\* the interpreter keeps running the loop of a call it has entered
FairSpec == Spec /\ WF_vars(EncodeStep) /\ WF_vars(EncodeReturn)

\* ====================================================== what the claims need

Range(f) == {f[i] : i \in DOMAIN f}

\* every character of g is a key of CHARMAP
IsValid(g) == \A i \in 1..Len(g) : g[i] \in DOMAIN CHARMAP

InLatRange(v) == LAT_LO <= v /\ v <= LAT_HI
InLngRange(v) == LNG_LO <= v /\ v <= LNG_HI

\* bits an axis gets out of the first k bits of the stream
LngBits(k) == (k + 1) \div 2
LatBits(k) == k \div 2

\* the number a decimal string denotes, as num / den
DigitValue(c) == CHOOSE k \in 0..9 : Digits[k + 1] = c

RECURSIVE DigitsValue(_)
DigitsValue(s) ==
    IF s = << >> THEN 0
    ELSE 10 * DigitsValue(SubSeq(s, 1, Len(s) - 1)) + DigitValue(s[Len(s)])

ParseDecimal(s) ==
    LET neg   == s # << >> /\ s[1] = "-"
        body  == IF neg THEN Tail(s) ELSE s
        dot   == IF \E i \in 1..Len(body) : body[i] = "."
                    THEN CHOOSE i \in 1..Len(body) : body[i] = "."
                    ELSE Len(body) + 1
        whole == SubSeq(body, 1, dot - 1)
        frac  == SubSeq(body, dot + 1, Len(body))
        n     == DigitsValue(whole \o frac)
    IN  [num |-> IF neg THEN 0 - n ELSE n, den |-> 10 ^ Len(frac)]

\* an / ad <= bn / bd (ad, bd > 0), whole parts first to keep the products small
RatLeq(an, ad, bn, bd) ==
    \/ an \div ad < bn \div bd
    \/ /\ an \div ad = bn \div bd
       /\ (an % ad) * bd <= (bn % bd) * ad

\* val - err <= parse(s) <= val + err, val and err in units
WithinError(s, val, err) ==
    LET q == ParseDecimal(s)
    IN  /\ RatLeq(val - err, Unit, q.num, q.den)
        /\ RatLeq(q.num, q.den, val + err, Unit)

\* floor(-log10(num / den)), num > 0, den > 0
RECURSIVE CeilLog10(_, _)
CeilLog10(num, den) ==
    IF num <= 10 * den THEN 1 ELSE 1 + CeilLog10(num, 10 * den)

MathFloorNegLog10(num, den) ==
    IF num > den THEN 0 - CeilLog10(num, den) ELSE FloorNegLog10(num, den)

\* ---------------------------------------------------------------------- C1

\* C1: round-trip containment.  When decode_val_err has decoded what encode
\* returned for a latitude in [-90, 90], a longitude in [-180, 180] and a
\* length >= 1, each coordinate given to encode lies within value - error and
\* value + error of its axis (boundary and midpoint inputs included).
C1_RoundTripContainment ==
    (/\ pc = "dve_returned"
     /\ via = "roundtrip"
     /\ length >= 1
     /\ InLatRange(lat_val)
     /\ InLngRange(lng_val))
    => /\ geohash = enc_ret
       /\ dve_ret.kind = "return"
       /\ dve_ret.lat_val - dve_ret.lat_err <= lat_val
       /\ lat_val <= dve_ret.lat_val + dve_ret.lat_err
       /\ dve_ret.lng_val - dve_ret.lng_err <= lng_val
       /\ lng_val <= dve_ret.lng_val + dve_ret.lng_err

\* the round trip of latitude 90 (a boundary) and longitude 0 (the first midpoint)
C1_Witness ==
    /\ pc = "dve_returned"
    /\ via = "roundtrip"
    /\ length >= 1
    /\ lat_val = LAT_HI
    /\ lng_val = 0

\* ---------------------------------------------------------------------- C2

\* while encode runs it has taken 5 * len(hashstr) + bit bisection steps, never
\* more than 5L; what it returns has exactly L characters, each of BASE32,
\* after ceil(5L/2) halvings of longitude and floor(5L/2) of latitude
C2_State ==
    /\ pc = "encode" =>
          /\ Len(hashstr) <= length
          /\ 5 * Len(hashstr) + bit <= 5 * length
          /\ (lng_hi - lng_lo) * (2 ^ LngBits(5 * Len(hashstr) + bit)) = LNG_HI - LNG_LO
          /\ (lat_hi - lat_lo) * (2 ^ LatBits(5 * Len(hashstr) + bit)) = LAT_HI - LAT_LO
    /\ pc = "encode_returned" =>
          /\ Len(enc_ret) = length
          /\ \A i \in 1..Len(enc_ret) : enc_ret[i] \in Range(BASE32)
          /\ (lng_hi - lng_lo) * (2 ^ LngBits(5 * length)) = LNG_HI - LNG_LO
          /\ (lat_hi - lat_lo) * (2 ^ LatBits(5 * length)) = LAT_HI - LAT_LO
          /\ (length = 0 => enc_ret = << >>)

\* C2: for every length L >= 0 and all coordinates, in range or not, encode
\* terminates and returns exactly L characters, each of BASE32, after exactly
\* 5L bisection steps, also when 5L is odd, and the empty string for L = 0.
C2_EncodeLength == [] C2_State /\ ((pc = "encode") ~> (pc = "encode_returned"))

\* encode has returned for an odd number of bits and a latitude out of range
C2_Witness ==
    /\ pc = "encode_returned"
    /\ via = "caller"
    /\ length = 1
    /\ lat_val = Deg(100)

\* ---------------------------------------------------------------------- C3

\* C3: whenever the string given to decode holds a character outside the
\* alphabet, decode ends by raising an error to its caller: it does not return
\* normally and prints nothing in place of the error.
C3_InvalidSymbolRaised ==
    (pc = "decode_returned" /\ ~IsValid(geohash))
    => /\ dec_ret.kind = "raise"
       /\ stdout = << >>

\* ---------------------------------------------------------------------- C4

\* C4: precision bound law.  For every valid geohash of length >= 1, each of
\* the two strings decode returns denotes a number within value - error and
\* value + error of its own axis, as decode_val_err gives them.
C4_PrecisionBound ==
    (/\ pc = "decode_returned"
     /\ dec_ret.kind = "return_tuple"
     /\ Len(geohash) >= 1)
    => /\ WithinError(dec_ret.lat, dve_ret.lat_val, dve_ret.lat_err)
       /\ WithinError(dec_ret.lng, dve_ret.lng_val, dve_ret.lng_err)

\* ---------------------------------------------------------------------- C5

\* C5: for every error decode passes to it, _get_precision(err) is
\* max(0, floor(-log10(2 * err)) + 1), which is 0 when 2 * err > 1.
C5_PrecisionIsFloor ==
    (pc = "decode_returned" /\ dec_ret.kind = "return_tuple")
    => /\ _get_precision(dve_ret.lng_err)
             = Max(0, MathFloorNegLog10(2 * dve_ret.lng_err, Unit) + 1)
       /\ (2 * dve_ret.lng_err > Unit => _get_precision(dve_ret.lng_err) = 0)

\* ---------------------------------------------------------------------- C6

\* C6 as stated: decode("") returns "0" and "0", and the errors of the empty
\* string are 45 for latitude and 90 for longitude.
C6_EmptyErrors45And90 ==
    (pc = "decode_returned" /\ geohash = << >>)
    => /\ dec_ret.kind = "return_tuple"
       /\ dec_ret.lat = << "0" >>
       /\ dec_ret.lng = << "0" >>
       /\ dve_ret.lat_err = Deg(45)
       /\ dve_ret.lng_err = Deg(90)

\* C6 as amended: decode("") returns "0" and "0", and the errors of the empty
\* string are 90 for latitude and 180 for longitude, the half-widths of the
\* whole intervals, both values being 0.
C6_EmptyString ==
    /\ (pc = "decode_returned" /\ geohash = << >>)
       => /\ dec_ret.kind = "return_tuple"
          /\ dec_ret.lat = << "0" >>
          /\ dec_ret.lng = << "0" >>
    /\ (pc \in {"dve_returned", "decode_returned"} /\ geohash = << >>)
       => /\ dve_ret.kind = "return"
          /\ dve_ret.lat_val = 0
          /\ dve_ret.lng_val = 0
          /\ dve_ret.lat_err = Deg(90)
          /\ dve_ret.lng_err = Deg(180)

\* decode has returned for the empty string
C6_Witness ==
    /\ pc = "decode_returned"
    /\ via = "decode"
    /\ geohash = << >>
    /\ dec_ret.kind = "return_tuple"

\* ---------------------------------------------------------------------- C7

\* C7: for a valid geohash of any length the longitude error returned by
\* decode_val_err is the latitude error or twice it; and after k bits of the
\* decode loop, k counted across the characters, longitude has been halved
\* ceil(k/2) times and latitude floor(k/2) times, the next bit being a
\* longitude bit exactly when k is even.
C7_ErrorRatio ==
    /\ pc = "dve_returned" =>
          \/ dve_ret.lng_err = dve_ret.lat_err
          \/ dve_ret.lng_err = 2 * dve_ret.lat_err
    /\ pc = "decode_val_err" =>
          LET k == 5 * (pos - 1) + bit
          IN  /\ (lng_hi - lng_lo) * (2 ^ LngBits(k)) = LNG_HI - LNG_LO
              /\ (lat_hi - lat_lo) * (2 ^ LatBits(k)) = LAT_HI - LAT_LO
              /\ is_lng = (k % 2 = 0)

\* the decode loop is one bit into its second character
C7_Witness ==
    /\ pc = "decode_val_err"
    /\ via = "caller"
    /\ pos = 2
    /\ bit = 1

\* ---------------------------------------------------------------------- C8

\* C8: the string-based path and the bit-operation path agree: what encode
\* returns is _encode of the same arguments, and the four results of
\* decode_val_err on a string over the alphabet are those of _decode_val_err.
C8_SlowEqualsFast ==
    /\ pc = "encode_returned" => enc_ret = _encode(lat_val, lng_val, length)
    /\ pc = "dve_returned" =>
          << dve_ret.lat_val, dve_ret.lng_val, dve_ret.lat_err, dve_ret.lng_err >>
             = _decode_val_err(geohash)

\* encode has returned two characters for a latitude on the first midpoint
C8_Witness ==
    /\ pc = "encode_returned"
    /\ via = "caller"
    /\ length = 2
    /\ lat_val = 0
    /\ lng_val = Deg(135)

\* ---------------------------------------------------------------------- C9

\* the bits _decode_val_err hands to _bits2coordinate for each axis
LatStream(g) == islice(_geohash2bits(g), 1)
LngStream(g) == islice(_geohash2bits(g), 0)

\* lo <= hi, the interval lies in << lo0, hi0 >> and has half its width
HalvedWithin(iv, lo0, hi0) ==
    /\ iv[1] <= iv[2]
    /\ lo0 <= iv[1]
    /\ iv[2] <= hi0
    /\ 2 * (iv[2] - iv[1]) = hi0 - lo0

\* every step of _bits2coordinate(bits, lo, hi) narrows as C9 says, and the
\* error it returns is (hi - lo) / 2^(Len(bits) + 1)
NarrowsBitByBit(bits, lo, hi) ==
    /\ \A k \in 0..(Len(bits) - 1) :
          LET before == BisectAll(SubSeq(bits, 1, k), lo, hi)
              after  == BisectAll(SubSeq(bits, 1, k + 1), lo, hi)
          IN  HalvedWithin(after, before[1], before[2])
    /\ _bits2coordinate(bits, lo, hi)[2] * (2 ^ (Len(bits) + 1)) = hi - lo
    /\ (bits = << >> => _bits2coordinate(bits, lo, hi) = << (lo + hi) \div 2, (hi - lo) \div 2 >>)

C9_State ==
    /\ lat_lo <= lat_hi
    /\ lng_lo <= lng_hi
    /\ pc = "dve_returned" =>
          /\ dve_ret.lng_err * (2 ^ (LngBits(5 * Len(geohash)) + 1)) = LNG_HI - LNG_LO
          /\ dve_ret.lat_err * (2 ^ (LatBits(5 * Len(geohash)) + 1)) = LAT_HI - LAT_LO
          /\ NarrowsBitByBit(LatStream(geohash), LAT_LO, LAT_HI)
          /\ NarrowsBitByBit(LngStream(geohash), LNG_LO, LNG_HI)

C9_Step ==
    (pc = "decode_val_err" /\ pc' = "decode_val_err")
    => IF is_lng
          THEN /\ HalvedWithin(<< lng_lo', lng_hi' >>, lng_lo, lng_hi)
               /\ UNCHANGED << lat_lo, lat_hi >>
          ELSE /\ HalvedWithin(<< lat_lo', lat_hi' >>, lat_lo, lat_hi)
               /\ UNCHANGED << lng_lo, lng_hi >>

\* C9: interval narrowing.  In _bits2coordinate and on each axis of
\* decode_val_err lo <= hi always holds, each bit leaves a sub-interval of
\* the interval before it with exactly half its width, and after k bits on an
\* axis the error returned is the initial width / 2^(k+1); with no bit the
\* value is the midpoint of the initial interval and the error its half-width.
C9_IntervalNarrowing == [] C9_State /\ [][C9_Step]_vars

\* decode_val_err has returned for a string of two characters
C9_Witness ==
    /\ pc = "dve_returned"
    /\ via = "caller"
    /\ Len(geohash) = 2

\* --------------------------------------------------------------------- C10

\* C10: for every string g over the alphabet, encode of the midpoint
\* decode_val_err(g) returns, at length len(g), is g itself; the alphabet is a
\* bijection with 0..31, and encode never meets val = mid on the way.
C10_MidpointInverse ==
    /\ \A i \in 0..31 : CHARMAP[BASE32[i + 1]] = i
    /\ Cardinality(DOMAIN CHARMAP) = 32
    /\ (pc = "encode" /\ via = "roundtrip" /\ LoopCond(hashstr, length)) =>
          IF is_lng THEN lng_val # Mid(lng_lo, lng_hi)
                    ELSE lat_val # Mid(lat_lo, lat_hi)
    /\ (pc = "encode_returned" /\ via = "roundtrip") =>
          /\ length = Len(geohash)
          /\ enc_ret = geohash

\* the midpoint of "ez" has been encoded again
C10_Witness ==
    /\ pc = "encode_returned"
    /\ via = "roundtrip"
    /\ geohash = << "e", "z" >>

====
